---- MODULE Spec2Model ----
(***************************************************************************)
(* multicloud_storage: the GCS and S3 adapters (gcs.py, minio.py) behind   *)
(* the StorageClient interface, run against a remote object store.         *)
(*                                                                         *)
(* The remote store is the only shared state: a function from the names of *)
(* the existing buckets to, per bucket, a function from the existing keys  *)
(* to their payloads.  One action is one call of one adapter method, with  *)
(* every provider call it makes; `last` records the call, its outcome, its *)
(* return value and the provider calls it issued, in order.                *)
(*                                                                         *)
(* Python's Optional[T] is a set with at most one element: None is {}.     *)
(* Host names and URLs are sequences of tokens, so that a scheme inside a  *)
(* host value and the key inside a URL can be looked for.                  *)
(***************************************************************************)
EXTENDS Integers, Sequences, FiniteSets, TLC

VARIABLES
    adapter,   \* which StorageClient implementation the caller holds
    env,       \* the process environment config() reads
    client,    \* the adapter instance's fields
    store,     \* the remote provider's buckets and objects
    faults,    \* the provider calls the remote service currently refuses
    rewrite,   \* the locals of a GCS.copy_object call inside its rewrite loop
    last       \* the last call: op, args, out, val, calls

vars == <<adapter, env, client, store, faults, rewrite, last>>

\* ------------------------------------------------------------------ bounds

\* Longest payload written by put_object.
MaxLen == 1

\* ------------------------------------------------------------ value domains

None == {}
Some(x) == {x}
Get(o) == CHOOSE x \in o : TRUE

Buckets == {"b1", "b2"}
Keys == {"a", "/b"}
Byte == {1}

\* The characters of a key, for prefix matching in listings.
Chars(k) ==
    CASE k = "a" -> <<"a">>
      [] k = "/b" -> <<"/", "b">>
      [] k = "/" -> <<"/">>
      [] OTHER -> <<>>

SeqsUpTo(S, n) == UNION {[1..m -> S] : m \in 0..n}
Payloads == SeqsUpTo(Byte, MaxLen)
Sizes == 0..MaxLen

HasPrefix(s, p) == Len(p) <= Len(s) /\ SubSeq(s, 1, Len(p)) = p

\* s contains t as a contiguous run of tokens (Python's `t in s`).
Contains(s, t) ==
    \E i \in 1..(Len(s) + 1) :
        i + Len(t) - 1 <= Len(s) /\ SubSeq(s, i, i + Len(t) - 1) = t

\* ------------------------------------------------------------ remote store

EmptyFn == [x \in {} |-> x]
Put(f, k, v) == [x \in (DOMAIN f) \cup {k} |-> IF x = k THEN v ELSE f[x]]
Drop(f, k) == [x \in (DOMAIN f) \ {k} |-> f[x]]

HasBucket(s, b) == b \in DOMAIN s
HasObject(s, b, k) == b \in DOMAIN s /\ k \in DOMAIN s[b]

\* The result of a call: the store it leaves, the outcome kind, the value
\* returned and the provider calls issued.
R(s, out, val, calls) == [store |-> s, out |-> out, val |-> val, calls |-> calls]

\* Outcome kinds.  The StorageException kinds are told apart by message:
\*   NotFoundBucket  "bucket {0} does not exist"
\*   NotFoundObject  "object {0} does not exist in bucket {1}"
\*   AlreadyExists   "bucket {0} already exists"
\*   InvalidArgument "expires must be defined"
\*   NotConfigured   "gcs client has not been configured"
\*   StorageError    "Minio Client Error: ..."
\* RawError is any exception that is not a StorageException (a provider
\* SDK error, an AttributeError on a None client).
Typed == {"NotFoundBucket", "NotFoundObject", "AlreadyExists",
          "InvalidArgument", "NotConfigured", "StorageError"}
Failed(r) == r.out # "ok"

\* r2 issued after r1 inside one call: the provider calls of both, in order.
After(r1, r2) == [r2 EXCEPT !.calls = r1.calls \o r2.calls]

\* ------------------------------------------------------------ environment

\* STORAGE_EMULATOR_HOST: unset, a bare host, or an http/https endpoint.
EmulatorHosts ==
    {None, Some(<<"emu">>), Some(<<"http", "://", "emu">>),
     Some(<<"https", "://", "emu">>)}
\* STORAGE_EXTERNAL_HOSTNAME: unset or a host.
ExternalHostnames == {None, Some(<<"ext">>)}

\* config(): the named values read from the process environment.
config ==
    [STORAGE_EMULATOR_HOST |-> env.STORAGE_EMULATOR_HOST,
     STORAGE_EXTERNAL_HOSTNAME |-> env.STORAGE_EXTERNAL_HOSTNAME,
     S3_ENDPOINT |-> env.S3_ENDPOINT,
     AWS_REGION |-> env.AWS_REGION]

\* HttpMethod.GET / HttpMethod.PUT, or a free-form string.
HttpMethod == {[enum |-> TRUE, value |-> "GET"], [enum |-> TRUE, value |-> "PUT"]}
MethodStrings == {"GET", "PUT", "HEAD"}
Methods == HttpMethod \cup {[enum |-> FALSE, value |-> v] : v \in MethodStrings}

\* Mutant of the method normalisation: an enumeration member is used as it
\* is, without taking its value.
MethodToken_Raw(method) == IF method.enum THEN "HttpMethod" ELSE method.value

\* method.value if not isinstance(method, str) else method: value is the
\* string itself, or the value of the HttpMethod member.
MethodToken(method) == method.value

\* ------------------------------------------------------------ GCS adapter

\* GCS.__init__
GCSInit ==
    [gcs_client |-> None, use_public_urls |-> None, emulator_hostname |-> None,
     external_hostname |-> None, secure |-> TRUE]

\* Mutant of GCS.configure: the emulator host is preferred to
\* STORAGE_EXTERNAL_HOSTNAME as the external hostname.
GCSConfigure_EmulatorFirst(c, cfg) ==
    LET emu == cfg.STORAGE_EMULATOR_HOST
        ext == IF emu # None THEN emu ELSE cfg.STORAGE_EXTERNAL_HOSTNAME
    IN  [gcs_client |-> Some("Client"),
         emulator_hostname |-> emu,
         external_hostname |-> ext,
         secure |-> IF emu # None /\ ~Contains(Get(emu), <<"https">>)
                    THEN FALSE ELSE c.secure,
         use_public_urls |-> IF emu # None THEN Some(TRUE) ELSE c.use_public_urls]

\* GCS.configure
GCSConfigure(c, cfg) ==
    LET emu == cfg.STORAGE_EMULATOR_HOST
        ext == IF cfg.STORAGE_EXTERNAL_HOSTNAME # None
               THEN cfg.STORAGE_EXTERNAL_HOSTNAME ELSE emu
    IN  [gcs_client |-> Some("Client"),
         emulator_hostname |-> emu,
         external_hostname |-> ext,
         secure |-> IF emu # None /\ ~Contains(Get(emu), <<"https">>)
                    THEN FALSE ELSE c.secure,
         use_public_urls |-> IF emu # None THEN Some(TRUE) ELSE c.use_public_urls]

\* GCS._client: the configured handle, or the configuration error.
GCSNotConfigured(c) == c.gcs_client = None

\* Provider calls of the google-cloud-storage client, on the remote store.
\* Each raises the SDK's own exception (RawError) where the service refuses.

\* Client.create_bucket: 409 Conflict when the bucket exists.
GcsCreateBucket(s, name) ==
    IF HasBucket(s, name) THEN R(s, "RawError", None, <<"create_bucket">>)
    ELSE R(Put(s, name, EmptyFn), "ok", None, <<"create_bucket">>)

\* Bucket.delete (force=False): 404 when missing, 409 when not empty.
GcsBucketDelete(s, name) ==
    IF HasBucket(s, name) /\ DOMAIN s[name] = {}
    THEN R(Drop(s, name), "ok", None, <<"bucket.delete">>)
    ELSE R(s, "RawError", None, <<"bucket.delete">>)

\* Blob.delete: 404 NotFound when the blob (or its bucket) is missing.
GcsBlobDelete(s, bucket_name, name) ==
    IF HasObject(s, bucket_name, name)
    THEN R([s EXCEPT ![bucket_name] = Drop(@, name)], "ok", None, <<"blob.delete">>)
    ELSE R(s, "RawError", None, <<"blob.delete">>)

\* Blob.open("wb") / write / close: uploads the bytes; 404 when the bucket
\* is missing.
GcsBlobWrite(s, bucket_name, name, bytes) ==
    IF HasBucket(s, bucket_name)
    THEN R([s EXCEPT ![bucket_name] = Put(@, name, bytes)], "ok", None, <<"blob.write">>)
    ELSE R(s, "RawError", None, <<"blob.write">>)

\* Blob.download_as_bytes: 404 when missing.
GcsBlobDownload(s, bucket_name, name) ==
    IF HasObject(s, bucket_name, name)
    THEN R(s, "ok", s[bucket_name][name], <<"blob.download_as_bytes">>)
    ELSE R(s, "RawError", None, <<"blob.download_as_bytes">>)

\* Blob.rewrite(source): the destination gets the source's bytes; 404 when
\* the source or the destination bucket is missing.
GcsBlobRewrite(s, sb, sn, db, dn) ==
    IF HasObject(s, sb, sn) /\ HasBucket(s, db)
    THEN R([s EXCEPT ![db] = Put(@, dn, s[sb][sn])], "ok", None, <<"blob.rewrite">>)
    ELSE R(s, "RawError", None, <<"blob.rewrite">>)

\* Bucket.rename_blob: copy_blob to the new name, then delete the old blob
\* unless the names are equal.
GcsRenameBlob(s, bucket_name, name, new_name) ==
    IF HasObject(s, bucket_name, name)
    THEN R([s EXCEPT ![bucket_name] =
                IF new_name = name THEN @ ELSE Drop(Put(@, new_name, @[name]), name)],
           "ok", None, <<"bucket.rename_blob">>)
    ELSE R(s, "RawError", None, <<"bucket.rename_blob">>)

\* Blob.exists: False on 404; any other error of the service (403, 5xx) is
\* raised as the SDK's own exception.
GcsBlobExists(s, bucket_name, name) ==
    IF "blob.exists" \in faults THEN R(s, "RawError", None, <<"blob.exists">>)
    ELSE R(s, "ok", HasObject(s, bucket_name, name), <<"blob.exists">>)

\* GCS.bucket_exists
GCS_bucket_exists(c, s, name) ==
    IF GCSNotConfigured(c) THEN R(s, "NotConfigured", None, <<>>)
    ELSE R(s, "ok", HasBucket(s, name), <<"bucket.exists">>)

\* Mutant of GCS.make_bucket: an idempotent create, silent when the bucket
\* is already there.
GCS_make_bucket_Idempotent(c, s, name) ==
    LET e == GCS_bucket_exists(c, s, name) IN
    IF Failed(e) THEN e
    ELSE IF e.val THEN R(s, "ok", None, e.calls)
    ELSE After(e, GcsCreateBucket(s, name))

\* GCS.make_bucket
GCS_make_bucket(c, s, name) ==
    LET e == GCS_bucket_exists(c, s, name) IN
    IF Failed(e) THEN e
    ELSE IF e.val THEN R(s, "AlreadyExists", None, e.calls)
    ELSE After(e, GcsCreateBucket(s, name))

\* GCS.remove_bucket
GCS_remove_bucket(c, s, name) ==
    LET e == GCS_bucket_exists(c, s, name) IN
    IF Failed(e) THEN e
    ELSE IF ~e.val THEN R(s, "NotFoundBucket", None, e.calls)
    ELSE After(e, GcsBucketDelete(s, name))

\* GCS.delete_object
GCS_delete_object(c, s, bucket_name, name) ==
    LET e == GCS_bucket_exists(c, s, bucket_name) IN
    IF Failed(e) THEN e
    ELSE IF ~e.val THEN R(s, "NotFoundBucket", None, e.calls)
    ELSE After(e, GcsBlobDelete(s, bucket_name, name))

\* Mutant of GCS.put_object: writes data.read() of a stream left at its
\* end, that is nothing.
GCS_put_object_Drained(c, s, bucket_name, name, data, size) ==
    IF GCSNotConfigured(c) THEN R(s, "NotConfigured", None, <<>>)
    ELSE GcsBlobWrite(s, bucket_name, name, <<>>)

\* GCS.put_object: writes data.getbuffer(), the whole buffer; the size
\* argument is ignored.
GCS_put_object(c, s, bucket_name, name, data, size) ==
    IF GCSNotConfigured(c) THEN R(s, "NotConfigured", None, <<>>)
    ELSE GcsBlobWrite(s, bucket_name, name, data)

\* GCS.object_exists
GCS_object_exists(c, s, bucket_name, name) ==
    LET e == GCS_bucket_exists(c, s, bucket_name) IN
    IF Failed(e) THEN e
    ELSE IF ~e.val THEN R(s, "NotFoundBucket", None, e.calls)
    ELSE After(e, GcsBlobExists(s, bucket_name, name))

\* Mutant of GCS.get_object: the download is issued without the existence
\* check.
GCS_get_object_NoCheck(c, s, bucket_name, name) ==
    LET e == GCS_bucket_exists(c, s, bucket_name) IN
    IF Failed(e) THEN e
    ELSE After(e, GcsBlobDownload(s, bucket_name, name))

\* GCS.get_object
GCS_get_object(c, s, bucket_name, name) ==
    LET e == GCS_object_exists(c, s, bucket_name, name) IN
    IF Failed(e) THEN e
    ELSE IF ~e.val THEN R(s, "NotFoundObject", None, e.calls)
    ELSE After(e, GcsBlobDownload(s, bucket_name, name))

\* GCS.copy_object: the rewrite loop, run until the provider returns no
\* continuation token.
GCS_copy_object(c, s, sb, sn, db, dn) ==
    LET e == GCS_object_exists(c, s, sb, sn) IN
    IF Failed(e) THEN e
    ELSE IF ~e.val THEN R(s, "NotFoundObject", None, e.calls)
    ELSE After(e, GcsBlobRewrite(s, sb, sn, db, dn))

\* GCS.rename_object
GCS_rename_object(c, s, bucket_name, name, new_name) ==
    LET e == GCS_object_exists(c, s, bucket_name, name) IN
    IF Failed(e) THEN e
    ELSE IF ~e.val THEN R(s, "NotFoundObject", None, e.calls)
    ELSE After(e, GcsRenameBlob(s, bucket_name, name, new_name))

\* GCS.list_objects: Client.list_blobs(bucket_name, prefix=prefix).
GCS_list_objects(c, s, bucket_name, prefix) ==
    LET e == GCS_bucket_exists(c, s, bucket_name) IN
    IF Failed(e) THEN e
    ELSE IF ~e.val THEN R(s, "NotFoundBucket", None, e.calls)
    ELSE R(s, "ok",
           {k \in DOMAIN s[bucket_name] :
                prefix = None \/ HasPrefix(Chars(k), Chars(Get(prefix)))},
           e.calls \o <<"list_blobs">>)

\* The contents of the named objects of a bucket, one after the other.
Concat(s, bucket_name, names) ==
    LET acc[i \in 0..Len(names)] ==
            IF i = 0 THEN <<>> ELSE acc[i - 1] \o s[bucket_name][names[i]]
    IN  acc[Len(names)]

\* Mutant of Blob.compose: the sources are taken last to first.
GcsBlobCompose_Reversed(s, bucket_name, destination, sources) ==
    IF \A i \in 1..Len(sources) : HasObject(s, bucket_name, sources[i])
    THEN R([s EXCEPT ![bucket_name] =
                Put(@, destination,
                    Concat(s, bucket_name,
                           [i \in 1..Len(sources) |-> sources[Len(sources) + 1 - i]]))],
           "ok", None, <<"blob.compose">>)
    ELSE R(s, "RawError", None, <<"blob.compose">>)

\* Blob.compose(sources): the destination blob becomes the concatenation of
\* the source blobs as they are when the request is served, in the order
\* given; the destination may be among them.  404 when a source is missing.
GcsBlobCompose(s, bucket_name, destination, sources) ==
    IF \A i \in 1..Len(sources) : HasObject(s, bucket_name, sources[i])
    THEN R([s EXCEPT ![bucket_name] =
                Put(@, destination, Concat(s, bucket_name, sources))],
           "ok", None, <<"blob.compose">>)
    ELSE R(s, "RawError", None, <<"blob.compose">>)

\* Mutant of GCS.concat_objects: only the destination is checked.
GCS_concat_objects_NoSourceCheck(c, s, bucket_name, destination_object, source_objects) ==
    LET d == GCS_object_exists(c, s, bucket_name, destination_object) IN
    IF Failed(d) THEN d
    ELSE IF ~d.val THEN R(s, "NotFoundObject", None, d.calls)
    ELSE [After(d, GcsBlobCompose(s, bucket_name, destination_object, source_objects))
             EXCEPT !.val = None]

\* GCS.concat_objects: object_exists on the destination, then on each source
\* in turn, then compose.
GCS_concat_objects(c, s, bucket_name, destination_object, source_objects) ==
    LET d == GCS_object_exists(c, s, bucket_name, destination_object)
        checked[i \in 0..Len(source_objects)] ==
            IF i = 0 THEN d
            ELSE IF Failed(checked[i - 1]) THEN checked[i - 1]
            ELSE LET e == After(checked[i - 1],
                                GCS_object_exists(c, s, bucket_name, source_objects[i]))
                 IN  IF Failed(e) THEN e
                     ELSE IF ~e.val THEN R(s, "NotFoundObject", None, e.calls)
                     ELSE e
        all == checked[Len(source_objects)]
    IN
    IF Failed(d) THEN d
    ELSE IF ~d.val THEN R(s, "NotFoundObject", None, d.calls)
    ELSE IF Failed(all) THEN all
    ELSE [After(all, GcsBlobCompose(s, bucket_name, destination_object, source_objects))
             EXCEPT !.val = None]

\* The provider's content hash and its encodings.  Md5 is the digest of the
\* bytes; the provider stores it base64 encoded (GCS) or as hex (S3 etag).
Md5(bytes) == [md5 |-> bytes]
B64Encode(x) == [b64 |-> x]
b64decode(y) == y.b64
hexlify(x) == [hex |-> x]

\* Bucket.get_blob: the blob's metadata with md5_hash, base64 of the digest.
GcsGetBlob(s, bucket_name, name) ==
    IF HasObject(s, bucket_name, name)
    THEN R(s, "ok", [md5_hash |-> B64Encode(Md5(s[bucket_name][name]))],
           <<"bucket.get_blob">>)
    ELSE R(s, "RawError", None, <<"bucket.get_blob">>)

\* Mutant of GCS.md5_checksum: the provider's base64 hash is returned as it
\* is, not decoded to hex.
GCS_md5_checksum_Base64(c, s, bucket_name, name) ==
    LET e == GCS_object_exists(c, s, bucket_name, name) IN
    IF Failed(e) THEN e
    ELSE IF ~e.val THEN R(s, "NotFoundObject", None, e.calls)
    ELSE LET blob == After(e, GcsGetBlob(s, bucket_name, name)) IN
         IF Failed(blob) THEN blob
         ELSE [blob EXCEPT !.val = blob.val.md5_hash]

\* GCS.md5_checksum
GCS_md5_checksum(c, s, bucket_name, name) ==
    LET e == GCS_object_exists(c, s, bucket_name, name) IN
    IF Failed(e) THEN e
    ELSE IF ~e.val THEN R(s, "NotFoundObject", None, e.calls)
    ELSE LET blob == After(e, GcsGetBlob(s, bucket_name, name)) IN
         IF Failed(blob) THEN blob
         ELSE [blob EXCEPT !.val = hexlify(b64decode(blob.val.md5_hash))]

\* Python truthiness of an Optional[bool] and of an Optional[str].
TruthyBool(o) == o = Some(TRUE)
TruthyStr(o) == o # None /\ Get(o) # <<>>

\* Blob.public_url
GcsPublicUrl(bucket_name, name) ==
    <<"https", "://", "storage.googleapis.com", "/", bucket_name, "/", name>>

\* str.replace(old, new), old occurring (if at all) at the head of url.
Replace(url, old, new) ==
    IF HasPrefix(url, old)
    THEN new \o SubSeq(url, Len(old) + 1, Len(url))
    ELSE url

\* Blob.generate_signed_url(expiration, method, content_type): a URL on the
\* provider's own endpoint carrying a signature; raises when expiration is
\* None.  The signature covers the method.
GcsGenerateSignedUrl(s, bucket_name, name, expires, method, content_type) ==
    IF expires = None
    THEN R(s, "RawError", None, <<"blob.generate_signed_url">>)
    ELSE R(s, "ok",
           GcsPublicUrl(bucket_name, name) \o <<"?", "X-Goog-Signature", method>>,
           <<"blob.generate_signed_url">>)

\* GCS.get_presigned_url
GCS_get_presigned_url(c, s, bucket_name, name, method, expires, content_type, use_hostname, secure) ==
    LET e == GCS_bucket_exists(c, s, bucket_name) IN
    IF Failed(e) THEN e
    ELSE IF ~e.val THEN R(s, "NotFoundBucket", None, e.calls)
    ELSE
      LET be == GcsBlobExists(s, bucket_name, name)
          calls == e.calls \o <<"get_bucket">> \o be.calls
          l_method == MethodToken(method)
      IN
      IF Failed(be) THEN [be EXCEPT !.calls = calls]
      ELSE IF ~be.val /\ l_method = "GET"
      THEN R(s, "NotFoundObject", None, calls)
      ELSE IF TruthyBool(c.use_public_urls)
      THEN LET l_scheme == IF ~c.secure THEN "http" ELSE "https"
               l_hostname == IF TruthyStr(use_hostname)
                             THEN use_hostname ELSE c.external_hostname
           IN R(s, "ok",
                Replace(GcsPublicUrl(bucket_name, name),
                        <<"https", "://", "storage.googleapis.com">>,
                        <<l_scheme, "://">> \o Get(l_hostname)),
                calls)
      ELSE [GcsGenerateSignedUrl(s, bucket_name, name, expires, l_method, content_type)
                EXCEPT !.calls = calls \o @]

\* -------------------------------------------------------------- S3 adapter

\* S3.__init__
S3Init ==
    [secure |-> FALSE, minio_client |-> None, endpoint |-> None,
     external_hostname |-> None, credentials |-> None, region |-> "us-east-1"]

\* Minio(endpoint, ...): the constructor raises when S3_ENDPOINT is unset
\* (the endpoint is None).
MinioRaises(cfg) == cfg.S3_ENDPOINT = None

\* S3.configure: the fields are assigned in turn and the Minio client is
\* constructed last; when the constructor raises, _minio_client keeps the
\* value it had.
S3Configure(c, cfg) ==
    [secure |-> c.secure,
     endpoint |-> cfg.S3_ENDPOINT,
     region |-> IF cfg.AWS_REGION # None THEN Get(cfg.AWS_REGION) ELSE c.region,
     external_hostname |-> IF cfg.STORAGE_EXTERNAL_HOSTNAME # None
                           THEN cfg.STORAGE_EXTERNAL_HOSTNAME ELSE cfg.S3_ENDPOINT,
     credentials |-> Some("Credentials"),
     minio_client |-> IF MinioRaises(cfg) THEN c.minio_client ELSE Some("Minio")]

\* Provider calls of the minio client, on the remote store.  An S3Error the
\* adapter does not catch leaves it as it is (RawError).

\* Minio.make_bucket: BucketAlreadyOwnedByYou when the bucket exists.
MinioMakeBucket(s, name) ==
    IF HasBucket(s, name) THEN R(s, "RawError", None, <<"make_bucket">>)
    ELSE R(Put(s, name, EmptyFn), "ok", None, <<"make_bucket">>)

\* Minio.set_bucket_policy
MinioSetBucketPolicy(s, name) ==
    IF HasBucket(s, name) THEN R(s, "ok", None, <<"set_bucket_policy">>)
    ELSE R(s, "RawError", None, <<"set_bucket_policy">>)

\* Minio.list_objects(name, prefix, recursive=True): the keys under prefix.
MinioListObjects(s, name, prefix) ==
    {k \in DOMAIN s[name] : prefix = None \/ HasPrefix(Chars(k), Chars(Get(prefix)))}

\* Minio.remove_objects: deletes the listed keys and returns the deletion
\* errors, one per key the service refused to delete; it does not raise.
MinioRemoveObjects(s, name, ks) ==
    IF "remove_objects" \in faults
    THEN R(s, "ok", ks, <<"list_objects", "remove_objects">>)
    ELSE R([s EXCEPT ![name] = [k \in (DOMAIN @) \ ks |-> @[k]]], "ok", {},
           <<"list_objects", "remove_objects">>)

\* Minio.remove_bucket: NoSuchBucket when missing, BucketNotEmpty when it
\* still holds an object.
MinioRemoveBucket(s, name) ==
    IF HasBucket(s, name) /\ DOMAIN s[name] = {}
    THEN R(Drop(s, name), "ok", None, <<"remove_bucket">>)
    ELSE R(s, "RawError", None, <<"remove_bucket">>)

\* Minio.remove_object: deleting a missing key succeeds (S3 DELETE is
\* idempotent); NoSuchBucket when the bucket is missing.
MinioRemoveObject(s, bucket_name, name) ==
    IF HasBucket(s, bucket_name)
    THEN R([s EXCEPT ![bucket_name] = Drop(@, name)], "ok", None, <<"remove_object">>)
    ELSE R(s, "RawError", None, <<"remove_object">>)

\* Minio.put_object(bucket, name, data, length): uploads the first `length`
\* bytes read from data; raises when data holds fewer, or when the bucket is
\* missing.
MinioPutObject(s, bucket_name, name, data, size) ==
    IF HasBucket(s, bucket_name) /\ size <= Len(data)
    THEN R([s EXCEPT ![bucket_name] = Put(@, name, SubSeq(data, 1, size))],
           "ok", None, <<"put_object">>)
    ELSE R(s, "RawError", None, <<"put_object">>)

\* Minio.stat_object: the object's metadata with its etag; S3Error
\* NoSuchKey when the key is missing, S3Error with another code (such as
\* AccessDenied) when the service refuses the request.
MinioStatObject(s, bucket_name, name) ==
    IF "stat_object" \in faults THEN R(s, "S3Error", None, <<"stat_object">>)
    ELSE IF HasObject(s, bucket_name, name)
    THEN R(s, "ok", [etag |-> hexlify(Md5(s[bucket_name][name]))], <<"stat_object">>)
    ELSE R(s, "NoSuchKey", None, <<"stat_object">>)

\* Minio.get_object: response.data.
MinioGetObject(s, bucket_name, name) ==
    IF HasObject(s, bucket_name, name)
    THEN R(s, "ok", s[bucket_name][name], <<"get_object">>)
    ELSE R(s, "RawError", None, <<"get_object">>)

\* Minio.copy_object(dst bucket, dst name, CopySource(src bucket, src name)).
\* A copy of an object onto itself is refused by some providers and accepted
\* by others: inplace says which.
MinioCopyObject(s, sb, sn, db, dn, inplace) ==
    IF HasObject(s, sb, sn) /\ HasBucket(s, db)
       /\ (<<sb, sn>> = <<db, dn>> => inplace)
    THEN R([s EXCEPT ![db] = Put(@, dn, s[sb][sn])], "ok", None, <<"copy_object">>)
    ELSE R(s, "RawError", None, <<"copy_object">>)

\* S3.bucket_exists: on an unconfigured adapter the client is None and the
\* attribute access raises AttributeError.
S3_bucket_exists(c, s, name) ==
    IF c.minio_client = None THEN R(s, "RawError", None, <<>>)
    ELSE R(s, "ok", HasBucket(s, name), <<"bucket_exists">>)

\* S3.make_bucket
S3_make_bucket(c, s, name) ==
    LET e == S3_bucket_exists(c, s, name) IN
    IF Failed(e) THEN e
    ELSE IF e.val THEN R(s, "AlreadyExists", None, e.calls)
    ELSE LET m == After(e, MinioMakeBucket(s, name)) IN
         IF Failed(m) THEN m ELSE After(m, MinioSetBucketPolicy(m.store, name))

\* for error in errors: print(...): the deletion errors go to standard
\* output and nowhere else.
PrintErrors(d) == IF d.val # {} THEN [d EXCEPT !.calls = @ \o <<"print">>] ELSE d

\* Mutant of S3.remove_bucket: the provider's refusal to remove the bucket
\* is swallowed and success is reported.
S3_remove_bucket_Swallow(c, s, name) ==
    LET e == S3_bucket_exists(c, s, name) IN
    IF Failed(e) THEN e
    ELSE IF ~e.val THEN R(s, "NotFoundBucket", None, e.calls)
    ELSE LET d == After(e, MinioRemoveObjects(s, name, MinioListObjects(s, name, Some("/"))))
             rb == After(PrintErrors(d), MinioRemoveBucket(d.store, name))
         IN [rb EXCEPT !.out = "ok"]

\* S3.remove_bucket: empties the keys listed under the prefix "/", prints
\* the deletion errors, then removes the bucket.
S3_remove_bucket(c, s, name) ==
    LET e == S3_bucket_exists(c, s, name) IN
    IF Failed(e) THEN e
    ELSE IF ~e.val THEN R(s, "NotFoundBucket", None, e.calls)
    ELSE LET d == After(e, MinioRemoveObjects(s, name, MinioListObjects(s, name, Some("/"))))
         IN After(PrintErrors(d), MinioRemoveBucket(d.store, name))

\* S3.delete_object
S3_delete_object(c, s, bucket_name, name) ==
    LET e == S3_bucket_exists(c, s, bucket_name) IN
    IF Failed(e) THEN e
    ELSE IF ~e.val THEN R(s, "NotFoundBucket", None, e.calls)
    ELSE After(e, MinioRemoveObject(s, bucket_name, name))

\* S3.put_object
S3_put_object(c, s, bucket_name, name, data, size) ==
    LET e == S3_bucket_exists(c, s, bucket_name) IN
    IF Failed(e) THEN e
    ELSE IF ~e.val THEN R(s, "NotFoundBucket", None, e.calls)
    ELSE After(e, MinioPutObject(s, bucket_name, name, data, size))

\* S3.object_exists: NoSuchKey is False, any other S3Error is re-raised as
\* a StorageException.
S3_object_exists(c, s, bucket_name, name) ==
    LET e == S3_bucket_exists(c, s, bucket_name) IN
    IF Failed(e) THEN e
    ELSE IF ~e.val THEN R(s, "NotFoundBucket", None, e.calls)
    ELSE LET st == After(e, MinioStatObject(s, bucket_name, name)) IN
         IF st.out = "ok" THEN [st EXCEPT !.val = TRUE]
         ELSE IF st.out = "NoSuchKey" THEN [st EXCEPT !.out = "ok", !.val = FALSE]
         ELSE [st EXCEPT !.out = "StorageError"]

\* S3.get_object
S3_get_object(c, s, bucket_name, name) ==
    LET e == S3_object_exists(c, s, bucket_name, name) IN
    IF Failed(e) THEN e
    ELSE IF ~e.val THEN R(s, "NotFoundObject", None, e.calls)
    ELSE After(e, MinioGetObject(s, bucket_name, name))

\* S3.list_objects
S3_list_objects(c, s, bucket_name, prefix) ==
    LET e == S3_bucket_exists(c, s, bucket_name) IN
    IF Failed(e) THEN e
    ELSE IF ~e.val THEN R(s, "NotFoundBucket", None, e.calls)
    ELSE R(s, "ok", MinioListObjects(s, bucket_name, prefix),
           e.calls \o <<"list_objects">>)

\* Mutant of S3.copy_object: source and destination handed to the provider
\* in the wrong order.
S3_copy_object_Swapped(c, s, sb, sn, db, dn, inplace) ==
    LET e == S3_object_exists(c, s, sb, sn) IN
    IF Failed(e) THEN e
    ELSE IF ~e.val THEN R(s, "NotFoundObject", None, e.calls)
    ELSE After(e, MinioCopyObject(s, db, dn, sb, sn, inplace))

\* S3.copy_object
S3_copy_object(c, s, sb, sn, db, dn, inplace) ==
    LET e == S3_object_exists(c, s, sb, sn) IN
    IF Failed(e) THEN e
    ELSE IF ~e.val THEN R(s, "NotFoundObject", None, e.calls)
    ELSE After(e, MinioCopyObject(s, sb, sn, db, dn, inplace))

\* Mutant of S3.rename_object: the source is deleted whether or not the
\* copy succeeded.
S3_rename_object_DeleteAnyway(c, s, bucket_name, name, new_name, inplace) ==
    LET cp == S3_copy_object(c, s, bucket_name, name, bucket_name, new_name, inplace)
        dl == After(cp, S3_delete_object(c, cp.store, bucket_name, name))
    IN  IF Failed(cp) /\ ~Failed(dl) THEN [dl EXCEPT !.out = cp.out] ELSE dl

\* Mutant of S3.rename_object: the source is not deleted after the copy.
S3_rename_object_NoDelete(c, s, bucket_name, name, new_name, inplace) ==
    S3_copy_object(c, s, bucket_name, name, bucket_name, new_name, inplace)

\* S3.rename_object: copy_object, then delete_object of the source.
S3_rename_object(c, s, bucket_name, name, new_name, inplace) ==
    LET cp == S3_copy_object(c, s, bucket_name, name, bucket_name, new_name, inplace) IN
    IF Failed(cp) THEN cp
    ELSE After(cp, S3_delete_object(c, cp.store, bucket_name, name))

\* S3.md5_checksum
S3_md5_checksum(c, s, bucket_name, name) ==
    LET e == S3_object_exists(c, s, bucket_name, name) IN
    IF Failed(e) THEN e
    ELSE IF ~e.val THEN R(s, "NotFoundObject", None, e.calls)
    ELSE LET metadata == After(e, MinioStatObject(s, bucket_name, name)) IN
         IF metadata.out = "ok" THEN [metadata EXCEPT !.val = @.etag]
         ELSE [metadata EXCEPT !.out = "RawError"]

\* presign_v4(method, url, region, credentials, expires, date).geturl():
\* the URL with the signature query appended.  The signature covers the
\* method.
presign_v4(method, url, region, credentials, expires) ==
    url \o <<"?", "X-Amz-Signature", method>>

\* S3.get_presigned_url
S3_get_presigned_url(c, s, bucket_name, name, method, expires, content_type, use_hostname, secure) ==
    LET e == S3_bucket_exists(c, s, bucket_name) IN
    IF Failed(e) THEN e
    ELSE IF ~e.val THEN R(s, "NotFoundBucket", None, e.calls)
    ELSE IF expires = None THEN R(s, "InvalidArgument", None, e.calls)
    ELSE
      LET l_secure == IF secure # None THEN Get(secure) ELSE c.secure
          l_hostname == IF use_hostname = None THEN c.external_hostname ELSE use_hostname
          l_method == MethodToken(method)
          l_scheme == IF l_secure THEN "https" ELSE "http"
          oe == IF l_method \in {"GET", "HEAD"}
                THEN After(e, S3_object_exists(c, s, bucket_name, name))
                ELSE [e EXCEPT !.val = TRUE]
      IN
      IF Failed(oe) THEN oe
      ELSE IF ~oe.val THEN R(s, "NotFoundObject", None, oe.calls)
      ELSE R(s, "ok",
             presign_v4(l_method,
                        <<l_scheme, "://">> \o Get(l_hostname)
                            \o <<"/", bucket_name, "/", name>>,
                        c.region, c.credentials, Get(expires)),
             oe.calls \o <<"presign_v4">>)

\* ------------------------------------------------- the StorageClient in use

\* StorageClient: each abstract method, dispatched to the implementation
\* the Storage facade holds.
bucket_exists(name) ==
    IF adapter = "GCS" THEN GCS_bucket_exists(client, store, name)
    ELSE S3_bucket_exists(client, store, name)

make_bucket(name) ==
    IF adapter = "GCS" THEN GCS_make_bucket(client, store, name)
    ELSE S3_make_bucket(client, store, name)

remove_bucket(name) ==
    IF adapter = "GCS" THEN GCS_remove_bucket(client, store, name)
    ELSE S3_remove_bucket(client, store, name)

put_object(bucket_name, name, data, size) ==
    IF adapter = "GCS" THEN GCS_put_object(client, store, bucket_name, name, data, size)
    ELSE S3_put_object(client, store, bucket_name, name, data, size)

get_object(bucket_name, name) ==
    IF adapter = "GCS" THEN GCS_get_object(client, store, bucket_name, name)
    ELSE S3_get_object(client, store, bucket_name, name)

delete_object(bucket_name, name) ==
    IF adapter = "GCS" THEN GCS_delete_object(client, store, bucket_name, name)
    ELSE S3_delete_object(client, store, bucket_name, name)

object_exists(bucket_name, name) ==
    IF adapter = "GCS" THEN GCS_object_exists(client, store, bucket_name, name)
    ELSE S3_object_exists(client, store, bucket_name, name)

list_objects(bucket_name, prefix) ==
    IF adapter = "GCS" THEN GCS_list_objects(client, store, bucket_name, prefix)
    ELSE S3_list_objects(client, store, bucket_name, prefix)

copy_object(sb, sn, db, dn, inplace) ==
    IF adapter = "GCS" THEN GCS_copy_object(client, store, sb, sn, db, dn)
    ELSE S3_copy_object(client, store, sb, sn, db, dn, inplace)

rename_object(bucket_name, name, new_name, inplace) ==
    IF adapter = "GCS" THEN GCS_rename_object(client, store, bucket_name, name, new_name)
    ELSE S3_rename_object(client, store, bucket_name, name, new_name, inplace)

md5_checksum(bucket_name, name) ==
    IF adapter = "GCS" THEN GCS_md5_checksum(client, store, bucket_name, name)
    ELSE S3_md5_checksum(client, store, bucket_name, name)

get_presigned_url(bucket_name, name, method, expires, content_type, use_hostname, secure) ==
    IF adapter = "GCS"
    THEN GCS_get_presigned_url(client, store, bucket_name, name, method, expires,
                               content_type, use_hostname, secure)
    ELSE S3_get_presigned_url(client, store, bucket_name, name, method, expires,
                              content_type, use_hostname, secure)

\* ------------------------------------------------------------ state machine

\* Environments: every emulator / external host setting, one S3 endpoint.
Envs ==
    [STORAGE_EMULATOR_HOST : EmulatorHosts,
     STORAGE_EXTERNAL_HOSTNAME : ExternalHostnames,
     S3_ENDPOINT : {Some(<<"minio">>)},
     AWS_REGION : {None}]

\* The environment of the test suites: both services emulated locally.
TestEnvs ==
    {e \in Envs : /\ e.STORAGE_EMULATOR_HOST = Some(<<"http", "://", "emu">>)
                  /\ e.STORAGE_EXTERNAL_HOSTNAME = None}

\* What the caller holds after a call, by the type the method returns: a
\* bool, a BytesIO (its bytes), the listed keys, a checksum string, a URL,
\* or nothing (the method returns None, or it raised).
NoArgs == [none |-> TRUE]
NoVal == [none |-> TRUE]
Returned(op, r) ==
    IF r.out # "ok" THEN NoVal
    ELSE CASE op \in {"bucket_exists", "object_exists"} -> [bool |-> r.val]
           [] op = "get_object" -> [bytes |-> r.val]
           [] op = "list_objects" -> [keys |-> r.val]
           [] op = "md5_checksum" -> [text |-> r.val]
           [] op = "get_presigned_url" -> [url |-> r.val]
           [] OTHER -> NoVal

\* No copy_object call is inside its rewrite loop.
NoRewrite ==
    [pc |-> "idle", args |-> NoArgs, rewrite_token |-> "False", bytes_rewritten |-> 0,
     bytes_to_rewrite |-> 0, history |-> <<>>, calls |-> <<>>]

\* GCS() / S3(): a freshly constructed adapter, an empty remote store.
InitIn(E) ==
    /\ adapter \in {"GCS", "S3"}
    /\ env \in E
    /\ client = IF adapter = "GCS" THEN GCSInit ELSE S3Init
    /\ store = EmptyFn
    /\ faults = {}
    /\ rewrite = NoRewrite
    /\ last = [op |-> "init", args |-> NoArgs, out |-> "ok", val |-> NoVal, calls |-> <<>>]

Init == InitIn(TestEnvs)

\* The adapter holds a provider client (configure has run).
Configured ==
    IF adapter = "GCS" THEN ~GCSNotConfigured(client) ELSE client.minio_client # None

\* One call returns: its effect on the store and what the caller sees.
Returns(op, args, r) ==
    /\ store' = r.store
    /\ last' = [op |-> op, args |-> args, out |-> r.out, val |-> Returned(op, r),
                calls |-> r.calls]
    /\ UNCHANGED <<adapter, env, client, faults>>

\* A call that runs from entry to return in one step.
Return(op, args, r) == Returns(op, args, r) /\ UNCHANGED rewrite

\* Storage.__init__ / StorageClient.configure
Configure ==
    /\ client' = IF adapter = "GCS" THEN GCSConfigure(client, config)
                 ELSE S3Configure(client, config)
    /\ last' = [op |-> "configure", args |-> NoArgs,
                out |-> IF adapter = "S3" /\ MinioRaises(config) THEN "RawError" ELSE "ok",
                val |-> NoVal, calls |-> <<>>]
    /\ UNCHANGED <<adapter, env, store, faults, rewrite>>

BucketExists ==
    \E b \in Buckets : Return("bucket_exists", [bucket |-> b], bucket_exists(b))

MakeBucketIn(B) ==
    \E b \in B : Return("make_bucket", [bucket |-> b], make_bucket(b))

MakeBucket == MakeBucketIn(Buckets)

RemoveBucketIn(B) ==
    \E b \in B : Return("remove_bucket", [bucket |-> b], remove_bucket(b))

RemoveBucket == RemoveBucketIn(Buckets)

PutObjectIn(B, D) ==
    \E b \in B, k \in Keys, data \in D, size \in Sizes :
        Return("put_object", [bucket |-> b, name |-> k, data |-> data, size |-> size],
               put_object(b, k, data, size))

PutObject == PutObjectIn(Buckets, Payloads)

GetObject ==
    \E b \in Buckets, k \in Keys :
        Return("get_object", [bucket |-> b, name |-> k], get_object(b, k))

DeleteObject ==
    \E b \in Buckets, k \in Keys :
        Return("delete_object", [bucket |-> b, name |-> k], delete_object(b, k))

ObjectExistsIn(B) ==
    \E b \in B, k \in Keys :
        Return("object_exists", [bucket |-> b, name |-> k], object_exists(b, k))

ObjectExists == ObjectExistsIn(Buckets)

ListObjects ==
    \E b \in Buckets, prefix \in {None, Some("/")} :
        Return("list_objects", [bucket |-> b, prefix |-> prefix], list_objects(b, prefix))

\* Whether the provider accepts a copy of an object onto itself; it has no
\* say in any other copy.
InPlace(sb, sn, db, dn) == IF <<sb, sn>> = <<db, dn>> THEN BOOLEAN ELSE {FALSE}

CopyObject ==
    \E sb \in Buckets, sn \in Keys, db \in Buckets, dn \in Keys :
      \E inplace \in InPlace(sb, sn, db, dn) :
        Return("copy_object", [bucket |-> sb, name |-> sn, dbucket |-> db, dname |-> dn],
               copy_object(sb, sn, db, dn, inplace))

RenameObject ==
    \E b \in Buckets, k \in Keys, k2 \in Keys :
      \E inplace \in InPlace(b, k, b, k2) :
        Return("rename_object", [bucket |-> b, name |-> k, new_name |-> k2],
               rename_object(b, k, k2, inplace))

Md5Checksum ==
    \E b \in Buckets, k \in Keys :
        Return("md5_checksum", [bucket |-> b, name |-> k], md5_checksum(b, k))

\* The expires / use_hostname / secure values a caller passes.
Expiries == {None, Some(60)}
Hostnames == {None, Some(<<>>), Some(<<"h123">>)}
Secures == {None, Some(TRUE), Some(FALSE)}

GetPresignedUrlIn(B) ==
    \E b \in B, k \in Keys, m \in Methods, ex \in Expiries,
       h \in Hostnames, sec \in Secures :
        Return("get_presigned_url",
               [bucket |-> b, name |-> k, method |-> m, expires |-> ex,
                use_hostname |-> h, secure |-> sec],
               get_presigned_url(b, k, m, ex, None, h, sec))

\* Bucket and object operations, under the test environment.
Next ==
    \/ Configure
    \/ BucketExists
    \/ MakeBucket
    \/ RemoveBucket
    \/ PutObject
    \/ GetObject
    \/ DeleteObject
    \/ ObjectExists
    \/ ListObjects
    \/ CopyObject
    \/ RenameObject
    \/ Md5Checksum

Spec == Init /\ [][Next]_vars

\* Presigned-URL issuance under every environment, on one bucket built by
\* make_bucket and put_object of an empty payload.
InitUrl == InitIn(Envs)

UrlBuckets == {"b1"}

NextUrl ==
    \/ Configure
    \/ MakeBucketIn(UrlBuckets)
    \/ PutObjectIn(UrlBuckets, {<<>>})
    \/ GetPresignedUrlIn(UrlBuckets)

SpecUrl == InitUrl /\ [][NextUrl]_vars

\* A remote service that refuses requests: the provider calls it refuses
\* change at any time (permissions, retention locks, outages), between the
\* adapter's calls.  In Spec and SpecUrl the service refuses nothing.
ProviderFaults == {"stat_object", "blob.exists", "remove_objects"}

Fault ==
    /\ \E F \in SUBSET ProviderFaults : faults' = F
    /\ last' = [op |-> "fault", args |-> NoArgs, out |-> "ok", val |-> NoVal,
                calls |-> <<>>]
    /\ UNCHANGED <<adapter, env, client, store, rewrite>>

\* Bucket removal and object metadata queries against such a service, on
\* one bucket built by make_bucket and put_object of an empty payload.
NextFault ==
    \/ Configure
    \/ Fault
    \/ MakeBucketIn(UrlBuckets)
    \/ PutObjectIn(UrlBuckets, {<<>>})
    \/ RemoveBucketIn(UrlBuckets)
    \/ ObjectExistsIn(UrlBuckets)

SpecFault == Init /\ [][NextFault]_vars

\* ------------------------------------------------------------------ claims

\* What a caller would be answered in the current state.
Exists(b) == LET r == bucket_exists(b) IN r.out = "ok" /\ r.val
ObjExists(b, k) == LET r == object_exists(b, k) IN r.out = "ok" /\ r.val

Range(s) == {s[i] : i \in 1..Len(s)}
Count(s, x) == Cardinality({i \in 1..Len(s) : s[i] = x})

\* The step is the call op, returning.
Called(op) == last'.op = op
Succeeded(op) == last'.op = op /\ last'.out = "ok"

\* C1: bucket lifecycle, on both adapters.  No bucket is reported to exist
\* at the start; bucket_exists(B) turns true exactly by a successful
\* make_bucket(B), stays true across every other call (object operations
\* included), and turns false exactly by a successful remove_bucket(B).
C1_Step ==
    \A b \in Buckets :
        LET made == Succeeded("make_bucket") /\ last'.args.bucket = b
            removed == Succeeded("remove_bucket") /\ last'.args.bucket = b
        IN  /\ made => Exists(b)'
            /\ removed => ~Exists(b)'
            /\ (Exists(b) /\ ~removed) => Exists(b)'
            /\ (Configured /\ ~Exists(b) /\ ~made) => ~Exists(b)'

C1_BucketLifecycle ==
    /\ \A b \in Buckets : ~HasBucket(store, b) /\ ~Exists(b)
    /\ [][C1_Step]_vars

\* C1 witness: bucket_exists answered true for a bucket that holds an
\* object: it was made, and object operations followed.
C1_Witness ==
    /\ last.op = "bucket_exists" /\ last.out = "ok" /\ last.val.bool
    /\ DOMAIN store[last.args.bucket] # {}

\* C2: make_bucket(B) while B exists fails with AlreadyExists, issues no
\* create call to the provider and leaves the store as it was.
CreateCalls == {"create_bucket", "make_bucket", "set_bucket_policy"}

C2_Step ==
    (Configured /\ Called("make_bucket") /\ HasBucket(store, last'.args.bucket))
        => /\ last'.out = "AlreadyExists"
           /\ Range(last'.calls) \cap CreateCalls = {}
           /\ store' = store

C2_MakeBucketAlreadyExists == [][C2_Step]_vars

\* C2 witness: make_bucket refused on a bucket that holds an object.
C2_Witness ==
    /\ last.op = "make_bucket" /\ last.out = "AlreadyExists"
    /\ HasBucket(store, last.args.bucket)
    /\ DOMAIN store[last.args.bucket] # {}

\* C3: for an existing bucket B and a key O missing in it, object_exists
\* answers false, and get_object and md5_checksum fail with NotFound(object)
\* before the provider's fetch (download / get_object) or hash read
\* (get_blob / a second stat_object) is issued.
FetchCalls == {"blob.download_as_bytes", "get_object"}

C3_Step ==
    (/\ Configured
     /\ last'.op \in {"object_exists", "get_object", "md5_checksum"}
     /\ HasBucket(store, last'.args.bucket)
     /\ ~HasObject(store, last'.args.bucket, last'.args.name))
        => /\ store' = store
           /\ Called("object_exists") => (last'.out = "ok" /\ last'.val.bool = FALSE)
           /\ Called("get_object") =>
                (last'.out = "NotFoundObject" /\ Range(last'.calls) \cap FetchCalls = {})
           /\ Called("md5_checksum") =>
                (/\ last'.out = "NotFoundObject"
                 /\ "bucket.get_blob" \notin Range(last'.calls)
                 /\ Count(last'.calls, "stat_object") <= 1)

C3_MissingObject == [][C3_Step]_vars

\* C3 witness: get_object refused for a missing key of a bucket that holds
\* another object.
C3_Witness ==
    /\ last.op = "get_object" /\ last.out = "NotFoundObject"
    /\ HasBucket(store, last.args.bucket)
    /\ DOMAIN store[last.args.bucket] # {}

\* C4 (as claimed): delete_object(B,O) on an existing bucket whose key O is
\* missing fails with NotFound(object), and no provider delete is issued.
DeleteCalls == {"blob.delete", "remove_object"}

C4_Step ==
    (/\ Configured
     /\ Called("delete_object")
     /\ HasBucket(store, last'.args.bucket)
     /\ ~HasObject(store, last'.args.bucket, last'.args.name))
        => /\ last'.out = "NotFoundObject"
           /\ Range(last'.calls) \cap DeleteCalls = {}

C4_DeleteMissingObject == [][C4_Step]_vars

\* C5: put/get round trip, for sequences of put_object, get_object,
\* object_exists and delete_object on (B,O).  In every state get_object and
\* object_exists answer what the store holds for (B,O): the payload and
\* true when the object is there, a failure and not-true when it is not.
\* A successful put_object(B,O,P) (P given with its own size) leaves exactly
\* P there, so after several puts the last successful one is read; a failed
\* put and every call that does not write (B,O) leave the object as it was;
\* a successful delete_object(B,O) leaves no object.
ReadOut(b, k) == get_object(b, k).out
ReadVal(b, k) == get_object(b, k).val
SameRead(b, k) ==
    LET r0 == get_object(b, k)
        r1 == get_object(b, k)'
        e0 == object_exists(b, k)
        e1 == object_exists(b, k)'
    IN  /\ (r1.out = "ok") = (r0.out = "ok")
        /\ r0.out = "ok" => r1.val = r0.val
        /\ (e1.out = "ok" /\ e1.val) = (e0.out = "ok" /\ e0.val)

\* get_object and object_exists answer what the store holds for (b, k).
ReadsStore(b, k) ==
    LET r == get_object(b, k)
        e == object_exists(b, k)
    IN  IF HasObject(store, b, k)
        THEN /\ r.out = "ok" /\ r.val = store[b][k]
             /\ e.out = "ok" /\ e.val
        ELSE /\ r.out # "ok"
             /\ ~(e.out = "ok" /\ e.val)

\* The object (b, k) is in the store after the step as it was before.
Kept(b, k) ==
    /\ HasObject(store, b, k)' = HasObject(store, b, k)
    /\ HasObject(store, b, k) => store'[b][k] = store[b][k]

\* The step is a call that may write the object (b, k).
Writes(b, k) ==
    \/ /\ last'.op \in {"put_object", "delete_object"}
       /\ last'.args.bucket = b /\ last'.args.name = k
    \/ /\ last'.op = "copy_object"
       /\ last'.args.dbucket = b /\ last'.args.dname = k
    \/ /\ last'.op = "rename_object"
       /\ last'.args.bucket = b /\ k \in {last'.args.name, last'.args.new_name}
    \/ /\ last'.op = "remove_bucket"
       /\ last'.args.bucket = b

C5_Step ==
    \A b \in Buckets, k \in Keys :
        LET mine == last'.args.bucket = b /\ last'.args.name = k IN
        /\ (Succeeded("put_object") /\ mine /\ last'.args.size = Len(last'.args.data))
              => (HasObject(store, b, k)' /\ store'[b][k] = last'.args.data)
        /\ (Called("put_object") /\ mine /\ last'.out # "ok") => Kept(b, k)
        /\ (Succeeded("delete_object") /\ mine) => ~HasObject(store, b, k)'
        /\ ~Writes(b, k) => Kept(b, k)

C5_PutGetRoundTrip ==
    /\ [](Configured => \A b \in Buckets, k \in Keys : ReadsStore(b, k))
    /\ [][C5_Step]_vars

\* C5 witness: a non-empty payload read back from an object that was put.
C5_Witness ==
    /\ last.op = "get_object" /\ last.out = "ok"
    /\ Len(last.val.bytes) > 0

\* C6: copy law.  After a successful copy_object(B,O,B,O2) both O and O2
\* exist and read as O read before the copy; a successful delete_object
\* leaves every other object of the bucket as it was.
C6_Step ==
    \A b \in Buckets, o \in Keys, o2 \in Keys :
        /\ (/\ Configured /\ Succeeded("copy_object")
            /\ last'.args.bucket = b /\ last'.args.dbucket = b
            /\ last'.args.name = o /\ last'.args.dname = o2)
              => /\ ReadOut(b, o) = "ok"
                 /\ ReadOut(b, o)' = "ok" /\ ReadVal(b, o)' = ReadVal(b, o)
                 /\ ReadOut(b, o2)' = "ok" /\ ReadVal(b, o2)' = ReadVal(b, o)
                 /\ ObjExists(b, o)' /\ ObjExists(b, o2)'
        /\ (/\ Configured /\ Succeeded("delete_object")
            /\ last'.args.bucket = b /\ last'.args.name = o /\ o2 # o)
              => SameRead(b, o2)

C6_CopyLaw == [][C6_Step]_vars

\* C6 witness: a copy to another key of the same bucket succeeded and both
\* objects are there.
C6_Witness ==
    /\ last.op = "copy_object" /\ last.out = "ok"
    /\ last.args.bucket = last.args.dbucket /\ last.args.name # last.args.dname
    /\ HasObject(store, last.args.bucket, last.args.name)
    /\ HasObject(store, last.args.bucket, last.args.dname)

\* C7: rename law.  After a successful rename_object(B,O,O2) with O2 # O,
\* object_exists(B,O) is false and object_exists(B,O2) is true; on a missing
\* source (in an existing bucket) rename_object fails with NotFound(object)
\* and the store is unchanged.
C7_Step ==
    \A b \in Buckets, o \in Keys, o2 \in Keys :
        (/\ Configured /\ Called("rename_object") /\ HasBucket(store, b)
         /\ last'.args.bucket = b /\ last'.args.name = o /\ last'.args.new_name = o2)
            => /\ (HasObject(store, b, o) /\ o2 # o /\ last'.out = "ok")
                    => /\ object_exists(b, o)'.out = "ok" /\ ~object_exists(b, o)'.val
                       /\ object_exists(b, o2)'.out = "ok" /\ object_exists(b, o2)'.val
               /\ ~HasObject(store, b, o)
                    => (last'.out = "NotFoundObject" /\ store' = store)

C7_RenameLaw == [][C7_Step]_vars

\* C7 witness: a rename to a different key succeeded.
C7_Witness ==
    /\ last.op = "rename_object" /\ last.out = "ok"
    /\ last.args.name # last.args.new_name
    /\ HasObject(store, last.args.bucket, last.args.new_name)

\* C8 (as claimed): get_presigned_url with method GET (HttpMethod.GET or the
\* string "GET") for a key missing in an existing bucket fails with
\* NotFound(object) on both adapters and in both URL modes; no URL is
\* returned and the signer is not invoked.
SignerCalls == {"presign_v4", "blob.generate_signed_url"}

C8_Step ==
    (/\ Configured
     /\ Called("get_presigned_url")
     /\ last'.args.method.value = "GET"
     /\ HasBucket(store, last'.args.bucket)
     /\ ~HasObject(store, last'.args.bucket, last'.args.name))
        => /\ last'.out = "NotFoundObject"
           /\ last'.val = NoVal
           /\ Range(last'.calls) \cap SignerCalls = {}

C8_PresignGetMissingObject == [][C8_Step]_vars

\* C9 (as claimed): whenever get_presigned_url succeeds, the URL returned
\* contains the object key, and when use_hostname = h was passed the host
\* of the URL (what stands between "://" and the next "/") is h.
HostIs(url, h) == HasPrefix(SubSeq(url, 2, Len(url)), <<"://">> \o h \o <<"/">>)

C9_Step ==
    Succeeded("get_presigned_url")
        => /\ Contains(last'.val.url, <<last'.args.name>>)
           /\ \/ last'.args.use_hostname = None
              \/ HostIs(last'.val.url, Get(last'.args.use_hostname))

C9_UrlHasKeyAndHost == [][C9_Step]_vars

\* C10 (as claimed): every operation addressing an object, called while a
\* bucket it addresses (for copy_object: the source or the destination
\* bucket) does not exist, fails with NotFound(bucket) having issued nothing
\* but bucket existence checks, and leaves the store as it was.
ObjectOps ==
    {"put_object", "get_object", "delete_object", "object_exists",
     "list_objects", "copy_object", "rename_object", "md5_checksum"}
ExistenceChecks == {"bucket.exists", "bucket_exists"}

C10_Step ==
    (/\ Configured
     /\ last'.op \in ObjectOps
     /\ \/ ~HasBucket(store, last'.args.bucket)
        \/ last'.op = "copy_object" /\ ~HasBucket(store, last'.args.dbucket))
        => /\ last'.out = "NotFoundBucket"
           /\ Range(last'.calls) \subseteq ExistenceChecks
           /\ store' = store

C10_BucketCheckedFirst == [][C10_Step]_vars

\* C11 (as claimed): on an adapter on which configure has never run, every
\* operation other than configure fails with the configuration error
\* (StorageException "not configured") and issues no provider call, on the
\* GCS and on the S3 adapter.
C11_Step ==
    (~Configured /\ last'.op # "configure")
        => (last'.out = "NotConfigured" /\ last'.calls = <<>> /\ store' = store)

C11_UnconfiguredFailsFast == [][C11_Step]_vars

\* C12 (as claimed): remove_bucket(B) on an existing bucket empties it
\* before it asks the provider to delete the bucket.  The provider refuses
\* to delete a bucket that holds an object and leaves it in place, so a
\* bucket-delete call issued on an emptied bucket is one that succeeds:
\* whenever the call is issued, remove_bucket succeeds and B is gone with
\* its objects.
BucketDeleteCalls == {"bucket.delete", "remove_bucket"}

C12_Step ==
    (/\ Configured
     /\ Called("remove_bucket")
     /\ HasBucket(store, last'.args.bucket)
     /\ Range(last'.calls) \cap BucketDeleteCalls # {})
        => (last'.out = "ok" /\ last'.args.bucket \notin DOMAIN store')

C12_RemoveBucketEmptiesFirst == [][C12_Step]_vars

\* C13 (as claimed): during remove_bucket, when the service refuses to
\* remove a member object the adapter asked it to remove, remove_bucket
\* fails, and the bucket-delete call is not issued on the bucket, which is
\* still not empty.
C13_Step ==
    (/\ Configured
     /\ Called("remove_bucket")
     /\ HasBucket(store, last'.args.bucket)
     /\ "remove_objects" \in faults
     /\ "remove_objects" \in Range(last'.calls)
     /\ MinioListObjects(store, last'.args.bucket, Some("/")) # {})
        => /\ last'.out # "ok"
           /\ Range(last'.calls) \cap BucketDeleteCalls = {}

C13_MemberRemovalFailure == [][C13_Step]_vars

\* C14 (as claimed): when STORAGE_EMULATOR_HOST was set at the time the
\* adapter was configured, get_presigned_url never invokes the signer and a
\* URL it returns carries no signature, whatever the method, expires,
\* use_hostname and secure values; when it was not set, a URL returned is
\* the signer's output.
Signatures == {"X-Amz-Signature", "X-Goog-Signature"}
Signed(url) == Range(url) \cap Signatures # {}

C14_Step ==
    (Configured /\ Called("get_presigned_url"))
        => IF env.STORAGE_EMULATOR_HOST # None
           THEN /\ Range(last'.calls) \cap SignerCalls = {}
                /\ last'.out = "ok" => ~Signed(last'.val.url)
           ELSE last'.out = "ok"
                    => /\ Range(last'.calls) \cap SignerCalls # {}
                       /\ Signed(last'.val.url)

C14_EmulatorForcesPublicUrl == [][C14_Step]_vars

\* C15: in public-URL mode (the GCS adapter configured with an emulator
\* host) the host of a returned URL is the use_hostname argument when one
\* is supplied (a non-empty string), otherwise STORAGE_EXTERNAL_HOSTNAME
\* when it is set, otherwise the emulator host as configured.
PublicUrlMode == adapter = "GCS" /\ Configured /\ TruthyBool(client.use_public_urls)

PreferredHost(use_hostname) ==
    IF TruthyStr(use_hostname) THEN Get(use_hostname)
    ELSE IF env.STORAGE_EXTERNAL_HOSTNAME # None
    THEN Get(env.STORAGE_EXTERNAL_HOSTNAME)
    ELSE Get(env.STORAGE_EMULATOR_HOST)

C15_Step ==
    (PublicUrlMode /\ Succeeded("get_presigned_url"))
        => HostIs(last'.val.url, PreferredHost(last'.args.use_hostname))

C15_PublicHostPrecedence == [][C15_Step]_vars

C15_Witness ==
    /\ PublicUrlMode
    /\ last.op = "get_presigned_url" /\ last.out = "ok"
    /\ ~TruthyStr(last.args.use_hostname)
    /\ env.STORAGE_EXTERNAL_HOSTNAME # None
    /\ env.STORAGE_EXTERNAL_HOSTNAME # env.STORAGE_EMULATOR_HOST
    /\ HostIs(last.val.url, Get(env.STORAGE_EXTERNAL_HOSTNAME))

\* C16 (as claimed): in public-URL mode the scheme of a returned URL is
\* https when secure = True was passed and http when secure = False was
\* passed; when secure was not passed it is https exactly when the
\* configured emulator endpoint is an https one.
SchemeOf(b) == IF b THEN "https" ELSE "http"

C16_Step ==
    (PublicUrlMode /\ Succeeded("get_presigned_url"))
        => Head(last'.val.url) =
              IF last'.args.secure # None
              THEN SchemeOf(Get(last'.args.secure))
              ELSE SchemeOf(Contains(Get(env.STORAGE_EMULATOR_HOST), <<"https">>))

C16_SecureChoosesScheme == [][C16_Step]_vars

\* C17: get_presigned_url called with HttpMethod.GET or HttpMethod.PUT
\* behaves as the same call with the string "GET" or "PUT": the same
\* outcome (in particular of the object-existence precondition), the same
\* provider calls and the same URL, whose signature covers the same method.
AsString(method) == [enum |-> FALSE, value |-> method.value]

C17_Step ==
    (Configured /\ Called("get_presigned_url") /\ last'.args.method.enum)
        => LET a == last'.args
               r == get_presigned_url(a.bucket, a.name, AsString(a.method),
                                      a.expires, None, a.use_hostname, a.secure)
           IN  /\ last'.out = r.out
               /\ last'.calls = r.calls
               /\ last'.val = Returned("get_presigned_url", r)
               /\ r.out = "ok" /\ Signed(r.val)
                      => r.val[Len(r.val)] = a.method.value

C17_MethodNormalized == [][C17_Step]_vars

C17_Witness ==
    /\ Configured
    /\ last.op = "get_presigned_url" /\ last.args.method.enum
    /\ last.args.method.value = "GET"
    /\ last.out = "NotFoundObject"
    /\ HasBucket(store, last.args.bucket)

\* C18 (as claimed): get_presigned_url with method "HEAD" and an expiry, for
\* a key missing in an existing bucket, fails with NotFound(object) and
\* returns no URL, as it does for GET, on both adapters.
C18_Step ==
    (/\ Configured
     /\ Called("get_presigned_url")
     /\ last'.args.method.value = "HEAD"
     /\ last'.args.expires # None
     /\ HasBucket(store, last'.args.bucket)
     /\ ~HasObject(store, last'.args.bucket, last'.args.name))
        => /\ last'.out = "NotFoundObject"
           /\ last'.val = NoVal

C18_PresignHeadMissingObject == [][C18_Step]_vars

\* C19 (as claimed): when the adapter signs URLs, get_presigned_url called
\* with expires absent fails with the InvalidArgument StorageException
\* without invoking the signer; when the bucket is missing as well, it fails
\* with NotFound(bucket) instead.  On both adapters.  (Stated for calls
\* whose object precondition is met: the method is PUT or the object
\* exists.)
SignedUrlMode == Configured /\ ~PublicUrlMode

C19_Step ==
    (/\ SignedUrlMode
     /\ Called("get_presigned_url")
     /\ last'.args.expires = None
     /\ \/ last'.args.method.value = "PUT"
        \/ HasObject(store, last'.args.bucket, last'.args.name))
        => /\ Range(last'.calls) \cap SignerCalls = {}
           /\ last'.out = IF HasBucket(store, last'.args.bucket)
                          THEN "InvalidArgument" ELSE "NotFoundBucket"

C19_ExpiresRequired == [][C19_Step]_vars

\* C20 (as claimed): object_exists(B, O) checks that bucket B exists before
\* anything else, then queries the object's metadata: it returns true when
\* the object is there and false when the provider answers 'no such key';
\* when the provider refuses the metadata query with any other error, it
\* raises a StorageException and returns nothing.  On both adapters.
MetadataCall == IF adapter = "GCS" THEN "blob.exists" ELSE "stat_object"

C20_Step ==
    (Configured /\ Called("object_exists"))
        => /\ last'.calls # <<>> /\ Head(last'.calls) \in ExistenceChecks
           /\ HasBucket(store, last'.args.bucket)
                => /\ MetadataCall \in Range(last'.calls)
                   /\ IF MetadataCall \in faults
                      THEN last'.out = "StorageError" /\ last'.val = NoVal
                      ELSE /\ last'.out = "ok"
                           /\ last'.val.bool
                                = HasObject(store, last'.args.bucket, last'.args.name)

C20_ObjectExistsErrors == [][C20_Step]_vars

\* ---------------------------------------------------------- concatenation

\* Longest source list given to concat_objects, and longest content it is
\* asked to compose.
MaxSources == 2
MaxCompose == 2

\* Two distinct one-byte payloads.
ConcatPayloads == {<<1>>, <<2>>}
SourceLists == UNION {[1..n -> Keys] : n \in 1..MaxSources}

\* concat_objects is a method of the GCS adapter only.
ConcatObjectsIn(B) ==
    /\ adapter = "GCS"
    /\ \E b \in B, d \in Keys, srcs \in SourceLists :
        /\ (\A i \in 1..Len(srcs) : HasObject(store, b, srcs[i]))
               => Len(Concat(store, b, srcs)) <= MaxCompose
        /\ Return("concat_objects", [bucket |-> b, destination |-> d, sources |-> srcs],
                  GCS_concat_objects(client, store, b, d, srcs))

GetObjectIn(B) ==
    \E b \in B, k \in Keys :
        Return("get_object", [bucket |-> b, name |-> k], get_object(b, k))

NextConcat ==
    \/ Configure
    \/ MakeBucketIn(UrlBuckets)
    \/ PutObjectIn(UrlBuckets, ConcatPayloads)
    \/ ConcatObjectsIn(UrlBuckets)
    \/ GetObjectIn(UrlBuckets)

SpecConcat == Init /\ [][NextConcat]_vars

\* C21: concat_objects(B, D, sources) on an existing bucket B fails with
\* NotFound(object) when D or one of the sources is missing in B; no compose
\* call is issued and the store is left as it was.
C21_Step ==
    (/\ Configured
     /\ Called("concat_objects")
     /\ HasBucket(store, last'.args.bucket)
     /\ \/ ~HasObject(store, last'.args.bucket, last'.args.destination)
        \/ \E i \in 1..Len(last'.args.sources) :
              ~HasObject(store, last'.args.bucket, last'.args.sources[i]))
        => /\ last'.out = "NotFoundObject"
           /\ "blob.compose" \notin Range(last'.calls)
           /\ store' = store

C21_ConcatMissingObject == [][C21_Step]_vars

C21_Witness ==
    /\ last.op = "concat_objects" /\ last.out = "NotFoundObject"
    /\ HasObject(store, last.args.bucket, last.args.destination)
    /\ \E i \in 1..Len(last.args.sources) :
          ~HasObject(store, last.args.bucket, last.args.sources[i])

\* C22: after concat_objects(B, D, [S1..Sn]) succeeds, D holds the contents
\* S1..Sn had before the call, concatenated in the order of the list (also
\* when D is one of the sources), get_object(B, D) returns it, and every
\* other object is as it was.
C22_Step ==
    \A b \in UrlBuckets, d \in Keys :
        (/\ Succeeded("concat_objects")
         /\ last'.args.bucket = b /\ last'.args.destination = d)
            => /\ HasObject(store, b, d)'
               /\ store'[b][d] = Concat(store, b, last'.args.sources)
               /\ \A k \in Keys \ {d} : Kept(b, k)

C22_ConcatLaw ==
    /\ [](Configured => \A k \in Keys : ReadsStore("b1", k))
    /\ [][C22_Step]_vars

C22_Witness ==
    /\ last.op = "concat_objects" /\ last.out = "ok"
    /\ last.args.destination = last.args.sources[1]
    /\ Len(last.args.sources) = 2
    /\ last.args.sources[1] # last.args.sources[2]
    /\ Len(store[last.args.bucket][last.args.destination]) = 2
    /\ store[last.args.bucket][last.args.destination][1]
          # store[last.args.bucket][last.args.destination][2]

\* C23: checksum law.  For every object (B, O) the store holds,
\* md5_checksum(B, O) succeeds and returns the hex MD5 digest of the payload
\* the object holds, on both adapters; a put_object that uploads the whole
\* payload P makes that the digest of P, and copy_object gives the
\* destination the digest the source has.
HexMd5(bytes) == hexlify(Md5(bytes))

ChecksumOf(b, k) ==
    LET r == md5_checksum(b, k) IN
    HasObject(store, b, k) => (r.out = "ok" /\ r.val = HexMd5(store[b][k]))

C23_Step ==
    \A b \in Buckets, k \in Keys :
        LET mine == last'.args.bucket = b /\ last'.args.name = k IN
        /\ (Succeeded("md5_checksum") /\ mine)
              => last'.val.text = HexMd5(store[b][k])
        /\ (Succeeded("put_object") /\ mine /\ last'.args.size = Len(last'.args.data))
              => HexMd5(store'[b][k]) = HexMd5(last'.args.data)
        /\ \A db \in Buckets, dn \in Keys :
              (/\ Succeeded("copy_object") /\ mine
               /\ last'.args.dbucket = db /\ last'.args.dname = dn)
                  => HexMd5(store'[db][dn]) = HexMd5(store[b][k])

NoSuchMethod == R(store, "RawError", None, <<>>)

Storage_bucket_exists(name) == bucket_exists(name)
Storage_make_bucket(name) == make_bucket(name)
Storage_remove_bucket(name) == remove_bucket(name)
Storage_put_object(bucket_name, name, data, size) == put_object(bucket_name, name, data, size)
Storage_get_object(bucket_name, name) == get_object(bucket_name, name)
Storage_object_exists(bucket_name, name) == object_exists(bucket_name, name)
Storage_delete_object(bucket_name, name) == delete_object(bucket_name, name)
Storage_get_presigned_url(bucket_name, name, method, expires, content_type, use_hostname, secure) == get_presigned_url(bucket_name, name, method, expires, content_type, use_hostname, secure)
Storage_copy_object(sb, sn, db, dn, inplace) == copy_object(sb, sn, db, dn, inplace)
Storage_list_objects(bucket_name, prefix) == NoSuchMethod
Storage_rename_object(bucket_name, name, new_name, inplace) == NoSuchMethod
Storage_md5_checksum(bucket_name, name) == NoSuchMethod

\* Calls made on a Storage object, which exists once Storage.__init__ has
\* configured its client.
ViaBucketExists ==
    /\ Configured
    /\ \E b \in UrlBuckets :
        Return("bucket_exists", [bucket |-> b], Storage_bucket_exists(b))

ViaMakeBucket ==
    /\ Configured
    /\ \E b \in UrlBuckets :
        Return("make_bucket", [bucket |-> b], Storage_make_bucket(b))

ViaRemoveBucket ==
    /\ Configured
    /\ \E b \in UrlBuckets :
        Return("remove_bucket", [bucket |-> b], Storage_remove_bucket(b))

ViaPutObject ==
    /\ Configured
    /\ \E b \in UrlBuckets, k \in Keys, data \in Payloads, size \in Sizes :
        Return("put_object", [bucket |-> b, name |-> k, data |-> data, size |-> size],
               Storage_put_object(b, k, data, size))

ViaGetObject ==
    /\ Configured
    /\ \E b \in UrlBuckets, k \in Keys :
        Return("get_object", [bucket |-> b, name |-> k], Storage_get_object(b, k))

ViaObjectExists ==
    /\ Configured
    /\ \E b \in UrlBuckets, k \in Keys :
        Return("object_exists", [bucket |-> b, name |-> k], Storage_object_exists(b, k))

ViaDeleteObject ==
    /\ Configured
    /\ \E b \in UrlBuckets, k \in Keys :
        Return("delete_object", [bucket |-> b, name |-> k], Storage_delete_object(b, k))

ViaGetPresignedUrl ==
    /\ Configured
    /\ \E b \in UrlBuckets, k \in Keys, m \in Methods, ex \in Expiries,
          h \in Hostnames, sec \in Secures :
        Return("get_presigned_url",
               [bucket |-> b, name |-> k, method |-> m, expires |-> ex,
                use_hostname |-> h, secure |-> sec],
               Storage_get_presigned_url(b, k, m, ex, None, h, sec))

ViaCopyObject ==
    /\ Configured
    /\ \E sb \in UrlBuckets, sn \in Keys, db \in UrlBuckets, dn \in Keys :
        \E inplace \in InPlace(sb, sn, db, dn) :
          Return("copy_object", [bucket |-> sb, name |-> sn, dbucket |-> db, dname |-> dn],
                 Storage_copy_object(sb, sn, db, dn, inplace))

ViaListObjects ==
    /\ Configured
    /\ \E b \in UrlBuckets, prefix \in {None, Some("/")} :
        Return("list_objects", [bucket |-> b, prefix |-> prefix],
               Storage_list_objects(b, prefix))

ViaRenameObject ==
    /\ Configured
    /\ \E b \in UrlBuckets, k \in Keys, k2 \in Keys :
        \E inplace \in InPlace(b, k, b, k2) :
          Return("rename_object", [bucket |-> b, name |-> k, new_name |-> k2],
                 Storage_rename_object(b, k, k2, inplace))

ViaMd5Checksum ==
    /\ Configured
    /\ \E b \in UrlBuckets, k \in Keys :
        Return("md5_checksum", [bucket |-> b, name |-> k], Storage_md5_checksum(b, k))

NextFacade ==
    \/ Configure
    \/ ViaBucketExists
    \/ ViaMakeBucket
    \/ ViaRemoveBucket
    \/ ViaPutObject
    \/ ViaGetObject
    \/ ViaObjectExists
    \/ ViaDeleteObject
    \/ ViaGetPresignedUrl
    \/ ViaCopyObject
    \/ ViaListObjects
    \/ ViaRenameObject
    \/ ViaMd5Checksum

SpecFacade == Init /\ [][NextFacade]_vars

\* What the adapter itself answers, in the current state, to the call that
\* was made through the facade.
AdapterAnswers(op, a) ==
    CASE op = "bucket_exists" -> {bucket_exists(a.bucket)}
      [] op = "make_bucket" -> {make_bucket(a.bucket)}
      [] op = "remove_bucket" -> {remove_bucket(a.bucket)}
      [] op = "put_object" -> {put_object(a.bucket, a.name, a.data, a.size)}
      [] op = "get_object" -> {get_object(a.bucket, a.name)}
      [] op = "object_exists" -> {object_exists(a.bucket, a.name)}
      [] op = "delete_object" -> {delete_object(a.bucket, a.name)}
      [] op = "get_presigned_url" ->
            {get_presigned_url(a.bucket, a.name, a.method, a.expires, None,
                               a.use_hostname, a.secure)}
      [] op = "copy_object" ->
            {copy_object(a.bucket, a.name, a.dbucket, a.dname, i) :
                i \in InPlace(a.bucket, a.name, a.dbucket, a.dname)}
      [] op = "list_objects" -> {list_objects(a.bucket, a.prefix)}
      [] op = "rename_object" ->
            {rename_object(a.bucket, a.name, a.new_name, i) :
                i \in InPlace(a.bucket, a.name, a.bucket, a.new_name)}
      [] op = "md5_checksum" -> {md5_checksum(a.bucket, a.name)}
      [] OTHER -> {}

\* C24 (as claimed): every call made through the Storage facade, of any of
\* the twelve operations, returns what the adapter returns for the same
\* arguments (result or error) and has the adapter's effect on the store.
FacadeOps ==
    {"bucket_exists", "make_bucket", "remove_bucket", "put_object", "get_object",
     "delete_object", "object_exists", "list_objects", "copy_object",
     "rename_object", "md5_checksum", "get_presigned_url"}

C24_Step ==
    last'.op \in FacadeOps
        => \E r \in AdapterAnswers(last'.op, last'.args) :
              /\ last'.out = r.out
              /\ last'.val = Returned(last'.op, r)
              /\ last'.calls = r.calls
              /\ store' = r.store

C24_FacadeForwards == [][C24_Step]_vars

\* C25 (as claimed): a call of any operation other than rename_object that
\* returns an error leaves the store exactly as it was before the call.
C25_Step ==
    (last'.op \in (FacadeOps \ {"rename_object"}) /\ last'.out # "ok")
        => store' = store

C25_AllOrNothing == [][C25_Step]_vars

\* ------------------------------------------------- another client at work

\* A second client of the same remote store acts between an adapter
\* method's existence check and its next provider call.  In the operators
\* below the store is s when the check is answered and s2 when the provider
\* call that follows is served.

\* What one call of another client can make of the store: nothing, a key
\* deleted, a bucket and its objects removed, a bucket created.
OtherClient(s) ==
    {s}
      \cup {[s EXCEPT ![b] = Drop(@, k)] : b \in DOMAIN s, k \in Keys}
      \cup {Drop(s, b) : b \in DOMAIN s}
      \cup {Put(s, b, EmptyFn) : b \in UrlBuckets \ DOMAIN s}

\* GCS.make_bucket
GCS_make_bucket_Amid(c, s, s2, name) ==
    LET e == GCS_bucket_exists(c, s, name) IN
    IF Failed(e) THEN e
    ELSE IF e.val THEN R(s, "AlreadyExists", None, e.calls)
    ELSE After(e, GcsCreateBucket(s2, name))

\* S3.make_bucket
S3_make_bucket_Amid(c, s, s2, name) ==
    LET e == S3_bucket_exists(c, s, name) IN
    IF Failed(e) THEN e
    ELSE IF e.val THEN R(s, "AlreadyExists", None, e.calls)
    ELSE LET m == After(e, MinioMakeBucket(s2, name)) IN
         IF Failed(m) THEN m ELSE After(m, MinioSetBucketPolicy(m.store, name))

\* S3.put_object
S3_put_object_Amid(c, s, s2, bucket_name, name, data, size) ==
    LET e == S3_bucket_exists(c, s, bucket_name) IN
    IF Failed(e) THEN e
    ELSE IF ~e.val THEN R(s, "NotFoundBucket", None, e.calls)
    ELSE After(e, MinioPutObject(s2, bucket_name, name, data, size))

\* GCS.get_object
GCS_get_object_Amid(c, s, s2, bucket_name, name) ==
    LET e == GCS_object_exists(c, s, bucket_name, name) IN
    IF Failed(e) THEN e
    ELSE IF ~e.val THEN R(s, "NotFoundObject", None, e.calls)
    ELSE After(e, GcsBlobDownload(s2, bucket_name, name))

\* S3.get_object
S3_get_object_Amid(c, s, s2, bucket_name, name) ==
    LET e == S3_object_exists(c, s, bucket_name, name) IN
    IF Failed(e) THEN e
    ELSE IF ~e.val THEN R(s, "NotFoundObject", None, e.calls)
    ELSE After(e, MinioGetObject(s2, bucket_name, name))

MakeBucketAmid ==
    \E b \in UrlBuckets, s2 \in OtherClient(store) :
        Return("make_bucket", [bucket |-> b],
               IF adapter = "GCS" THEN GCS_make_bucket_Amid(client, store, s2, b)
               ELSE S3_make_bucket_Amid(client, store, s2, b))

\* GCS.put_object makes no check: the whole call is served after the other
\* client's.
PutObjectAmid ==
    \E b \in UrlBuckets, k \in Keys, data \in Payloads, s2 \in OtherClient(store) :
        Return("put_object",
               [bucket |-> b, name |-> k, data |-> data, size |-> Len(data)],
               IF adapter = "GCS" THEN GCS_put_object(client, s2, b, k, data, Len(data))
               ELSE S3_put_object_Amid(client, store, s2, b, k, data, Len(data)))

GetObjectAmid ==
    \E b \in UrlBuckets, k \in Keys, s2 \in OtherClient(store) :
        Return("get_object", [bucket |-> b, name |-> k],
               IF adapter = "GCS" THEN GCS_get_object_Amid(client, store, s2, b, k)
               ELSE S3_get_object_Amid(client, store, s2, b, k))

NextRace ==
    \/ Configure
    \/ MakeBucketAmid
    \/ PutObjectAmid
    \/ GetObjectAmid

SpecRace == Init /\ [][NextRace]_vars

\* C26 (as claimed): a call on a configured adapter, also when another
\* client changes the store between the call's existence check and its
\* provider call, ends in success or in a StorageException, never in an
\* exception of another type.
C26_Step ==
    (Configured /\ last'.op \in FacadeOps) => last'.out \in {"ok"} \cup Typed

C26_NoRawError == [][C26_Step]_vars

\* -------------------------------------------------------- the two backends

\* What each adapter, configured from the environment, answers to a call in
\* the current state of the store.
GCSAnswers(c, op, a) ==
    CASE op = "bucket_exists" -> {GCS_bucket_exists(c, store, a.bucket)}
      [] op = "make_bucket" -> {GCS_make_bucket(c, store, a.bucket)}
      [] op = "remove_bucket" -> {GCS_remove_bucket(c, store, a.bucket)}
      [] op = "put_object" -> {GCS_put_object(c, store, a.bucket, a.name, a.data, a.size)}
      [] op = "get_object" -> {GCS_get_object(c, store, a.bucket, a.name)}
      [] op = "object_exists" -> {GCS_object_exists(c, store, a.bucket, a.name)}
      [] op = "delete_object" -> {GCS_delete_object(c, store, a.bucket, a.name)}
      [] op = "list_objects" -> {GCS_list_objects(c, store, a.bucket, a.prefix)}
      [] op = "copy_object" ->
            {GCS_copy_object(c, store, a.bucket, a.name, a.dbucket, a.dname)}
      [] op = "rename_object" ->
            {GCS_rename_object(c, store, a.bucket, a.name, a.new_name)}
      [] op = "md5_checksum" -> {GCS_md5_checksum(c, store, a.bucket, a.name)}
      [] op = "get_presigned_url" ->
            {GCS_get_presigned_url(c, store, a.bucket, a.name, a.method, a.expires,
                                   None, a.use_hostname, a.secure)}
      [] OTHER -> {}

S3Answers(c, op, a) ==
    CASE op = "bucket_exists" -> {S3_bucket_exists(c, store, a.bucket)}
      [] op = "make_bucket" -> {S3_make_bucket(c, store, a.bucket)}
      [] op = "remove_bucket" -> {S3_remove_bucket(c, store, a.bucket)}
      [] op = "put_object" -> {S3_put_object(c, store, a.bucket, a.name, a.data, a.size)}
      [] op = "get_object" -> {S3_get_object(c, store, a.bucket, a.name)}
      [] op = "object_exists" -> {S3_object_exists(c, store, a.bucket, a.name)}
      [] op = "delete_object" -> {S3_delete_object(c, store, a.bucket, a.name)}
      [] op = "list_objects" -> {S3_list_objects(c, store, a.bucket, a.prefix)}
      [] op = "copy_object" ->
            {S3_copy_object(c, store, a.bucket, a.name, a.dbucket, a.dname, i) :
                i \in InPlace(a.bucket, a.name, a.dbucket, a.dname)}
      [] op = "rename_object" ->
            {S3_rename_object(c, store, a.bucket, a.name, a.new_name, i) :
                i \in InPlace(a.bucket, a.name, a.bucket, a.new_name)}
      [] op = "md5_checksum" -> {S3_md5_checksum(c, store, a.bucket, a.name)}
      [] op = "get_presigned_url" ->
            {S3_get_presigned_url(c, store, a.bucket, a.name, a.method, a.expires,
                                  None, a.use_hostname, a.secure)}
      [] OTHER -> {}

\* The answers of the adapter that is not in use, had it been given the call.
PeerAnswers(op, a) ==
    IF adapter = "GCS" THEN S3Answers(S3Configure(S3Init, config), op, a)
    ELSE GCSAnswers(GCSConfigure(GCSInit, config), op, a)

\* C27 (as claimed): from the same store, the same call gets from the GCS
\* adapter and from the S3 adapter the same outcome kind (with the same
\* result when it succeeds) and leaves the same buckets and objects; hence
\* so does every sequence of calls.
C27_Step ==
    (Configured /\ last'.op \in FacadeOps)
        => \E r \in PeerAnswers(last'.op, last'.args) :
              /\ r.out = last'.out
              /\ Returned(last'.op, r) = last'.val
              /\ r.store = store'

C27_BackendUniformity == [][C27_Step]_vars

\* ------------------------------------------------------------ configuration

\* Environments in which the S3 endpoint may be unset.
ConfigEnvs ==
    [STORAGE_EMULATOR_HOST : {None, Some(<<"emu">>)},
     STORAGE_EXTERNAL_HOSTNAME : ExternalHostnames,
     S3_ENDPOINT : {None, Some(<<"minio">>)},
     AWS_REGION : {None}]

InitConfigure == InitIn(ConfigEnvs)

NextConfigure ==
    \/ Configure
    \/ MakeBucketIn(UrlBuckets)
    \/ PutObjectIn(UrlBuckets, Payloads)
    \/ ObjectExistsIn(UrlBuckets)

SpecConfigure == InitConfigure /\ [][NextConfigure]_vars

\* C28 (as claimed): an adapter without a provider client handle is exactly
\* in its initial state; no configuration field is set while the handle is
\* absent, whether configure returned or failed.
C28_NoPartialConfiguration ==
    ~Configured => client = (IF adapter = "GCS" THEN GCSInit ELSE S3Init)

\* C29 (as claimed): on the S3 adapter, get_presigned_url with method "GET"
\* and an expiry, for a key of an existing bucket under which no object has
\* been written, returns a URL that contains the key and, when use_hostname
\* was passed, that hostname.
C29_Step ==
    (/\ adapter = "S3" /\ Configured
     /\ Called("get_presigned_url")
     /\ last'.args.method.value = "GET"
     /\ last'.args.expires # None
     /\ HasBucket(store, last'.args.bucket)
     /\ ~HasObject(store, last'.args.bucket, last'.args.name))
        => /\ last'.out = "ok"
           /\ Contains(last'.val.url, <<last'.args.name>>)
           /\ last'.args.use_hostname # None
                => Contains(last'.val.url, Get(last'.args.use_hostname))

C29_S3PresignGetWithoutObject == [][C29_Step]_vars

\* ------------------------------------------------------ rename, interrupted

\* S3.rename_object stopped between its two steps: the process ends after
\* copy_object has returned and before delete_object is called.
S3_rename_object_Interrupted(c, s, bucket_name, name, new_name, inplace) ==
    LET cp == S3_copy_object(c, s, bucket_name, name, bucket_name, new_name, inplace) IN
    IF Failed(cp) THEN cp ELSE [cp EXCEPT !.out = "Interrupted"]

RenameObjectIn(B) ==
    \E b \in B, k \in Keys, k2 \in Keys :
      \E inplace \in InPlace(b, k, b, k2) :
        Return("rename_object", [bucket |-> b, name |-> k, new_name |-> k2],
               rename_object(b, k, k2, inplace))

RenameInterrupted ==
    /\ adapter = "S3"
    /\ \E b \in UrlBuckets, k \in Keys, k2 \in Keys :
        \E inplace \in InPlace(b, k, b, k2) :
          Return("rename_object", [bucket |-> b, name |-> k, new_name |-> k2],
                 S3_rename_object_Interrupted(client, store, b, k, k2, inplace))

NextRename ==
    \/ Configure
    \/ MakeBucketIn(UrlBuckets)
    \/ PutObjectIn(UrlBuckets, Payloads)
    \/ RenameObjectIn(UrlBuckets)
    \/ RenameInterrupted

SpecRename == Init /\ [][NextRename]_vars

\* C30: on the S3 adapter rename_object is copy, then delete of the source.
\* The delete is issued only after a copy that succeeded; a call whose copy
\* step fails issues no delete and leaves the source as it was; a call
\* stopped between the two steps leaves both the source and the destination
\* present.
Before(calls, x, y) ==
    \E i, j \in 1..Len(calls) : i < j /\ calls[i] = x /\ calls[j] = y

C30_Step ==
    \A b \in UrlBuckets, k \in Keys, k2 \in Keys :
        (/\ adapter = "S3" /\ Configured /\ Called("rename_object")
         /\ last'.args.bucket = b /\ last'.args.name = k /\ last'.args.new_name = k2)
            => /\ "remove_object" \in Range(last'.calls)
                    => /\ Before(last'.calls, "copy_object", "remove_object")
                       /\ last'.out = "ok"
                       /\ HasObject(store, b, k)
                       /\ k2 # k => (HasObject(store, b, k2)' /\ store'[b][k2] = store[b][k])
               /\ last'.out \notin {"ok", "Interrupted"}
                    => /\ "remove_object" \notin Range(last'.calls)
                       /\ Kept(b, k)
               /\ last'.out = "Interrupted"
                    => /\ "remove_object" \notin Range(last'.calls)
                       /\ HasObject(store, b, k)' /\ HasObject(store, b, k2)'

C30_RenameCopyThenDelete == [][C30_Step]_vars

C30_Witness ==
    /\ adapter = "S3"
    /\ last.op = "rename_object" /\ last.out = "Interrupted"
    /\ last.args.name # last.args.new_name
    /\ HasObject(store, last.args.bucket, last.args.name)
    /\ HasObject(store, last.args.bucket, last.args.new_name)

\* ------------------------------------------- the rewrite loop of GCS.copy_object

\* Number of rewrite calls the history of one copy_object call keeps; older
\* calls slide out of it.
MaxRewrites == 2

\* Continuation tokens the provider hands out; "None" is Python's None (the
\* rewrite is complete) and "False" the loop's initial value.
RewriteTokens == {"t1", "t2"}

\* Python truth of a token, as tested by `if not rewrite_token` and by the
\* SDK's `if token:`.
TruthyToken(t) == t \notin {"False", "None"}

\* Blob.rewrite(source, token=token): the answers (token, bytes_rewritten,
\* bytes_to_rewrite) the provider may give.  A falsy token starts a rewrite;
\* a token continues the rewrite it was issued for and any other token is
\* refused; a missing source or destination bucket is 404.  The rewrite
\* either completes (no token, the destination written) or stops short with
\* a continuation token and the bytes done so far.
GcsBlobRewriteCall(s, sb, sn, db, dn, token, issued, sofar) ==
    LET refused == {[out |-> "RawError", token |-> "None", bytes_rewritten |-> 0,
                     bytes_to_rewrite |-> 0, store |-> s]} IN
    IF ~(HasObject(s, sb, sn) /\ HasBucket(s, db)) THEN refused
    ELSE IF TruthyToken(token) /\ token # issued THEN refused
    ELSE LET total == Len(s[sb][sn])
             from == IF TruthyToken(token) THEN sofar ELSE 0 IN
         {[out |-> "ok", token |-> "None", bytes_rewritten |-> total,
           bytes_to_rewrite |-> total, store |-> GcsBlobRewrite(s, sb, sn, db, dn).store]}
         \cup
         {[out |-> "ok", token |-> t, bytes_rewritten |-> n, bytes_to_rewrite |-> total,
           store |-> s] : t \in RewriteTokens, n \in from..total}

\* The last MaxRewrites calls.
Window(h) == IF Len(h) > MaxRewrites THEN Tail(h) ELSE h

\* The token the provider issued last in this call, "None" before any.
Issued(rw) == IF rw.history = <<>> THEN "None" ELSE rw.history[Len(rw.history)].answer

\* A loop body that never assigns the token it is given.
GCS_copy_object_rewrite_KeepToken(rw, resp) ==
    [rw EXCEPT !.bytes_rewritten = resp.bytes_rewritten,
               !.bytes_to_rewrite = resp.bytes_to_rewrite,
               !.history = Window(@ \o <<[token |-> rw.rewrite_token,
                                          answer |-> resp.token]>>)]

\* One pass of the loop body: rewrite is called with token=rewrite_token and
\* its three values are assigned to the locals.
GCS_copy_object_rewrite(rw, resp) ==
    [rw EXCEPT !.rewrite_token = resp.token,
               !.bytes_rewritten = resp.bytes_rewritten,
               !.bytes_to_rewrite = resp.bytes_to_rewrite,
               !.history = Window(@ \o <<[token |-> rw.rewrite_token,
                                          answer |-> resp.token]>>)]

\* GCS.copy_object up to the loop: the existence check, then
\* rewrite_token = False.  A failed check returns at once.
CopyObjectEnter ==
    /\ adapter = "GCS"
    /\ rewrite.pc # "loop"
    /\ \E sb \in Buckets, db \in Buckets, sn \in Keys, dn \in Keys :
         LET args == [bucket |-> sb, name |-> sn, dbucket |-> db, dname |-> dn]
             e == GCS_object_exists(client, store, sb, sn) IN
         IF Failed(e) \/ ~e.val
         THEN Return("copy_object", args, GCS_copy_object(client, store, sb, sn, db, dn))
         ELSE /\ rewrite' = [NoRewrite EXCEPT !.pc = "loop", !.args = args,
                                              !.calls = e.calls]
              /\ UNCHANGED <<adapter, env, client, store, faults, last>>

\* One pass of `while True`: the rewrite call, the debug log of the progress
\* figures, and `if not rewrite_token: break`.  After the break copy_object
\* returns None; an error of the provider leaves the method as it is.
RewriteCallWith(resp) ==
    LET a == rewrite.args
        rw == GCS_copy_object_rewrite(rewrite, resp)
        calls == rewrite.calls \o <<"blob.rewrite">> IN
    /\ rewrite.pc = "loop"
    /\ IF resp.out # "ok"
       THEN /\ rewrite' = [rewrite EXCEPT !.pc = "raised"]
            /\ Returns("copy_object", a, R(store, "RawError", None, calls))
       ELSE IF ~TruthyToken(rw.rewrite_token)
       THEN /\ rewrite' = [rw EXCEPT !.pc = "done"]
            /\ Returns("copy_object", a, R(resp.store, "ok", None, calls))
       ELSE /\ rewrite' = rw
            /\ UNCHANGED <<adapter, env, client, store, faults, last>>

\* The answers the provider may give to the loop's next call.
RewriteAnswers ==
    IF rewrite.pc # "loop" THEN {}
    ELSE LET a == rewrite.args IN
         GcsBlobRewriteCall(store, a.bucket, a.name, a.dbucket, a.dname,
                            rewrite.rewrite_token, Issued(rewrite),
                            rewrite.bytes_rewritten)

RewriteCall == \E resp \in RewriteAnswers : RewriteCallWith(resp)

\* The pass in which the provider reports completion (or refuses the call).
RewriteCompletes ==
    \E resp \in RewriteAnswers : ~TruthyToken(resp.token) /\ RewriteCallWith(resp)

\* A single caller: no other call starts while copy_object is in its loop.
NextRewrite ==
    \/ rewrite.pc # "loop" /\ Configure
    \/ rewrite.pc # "loop" /\ MakeBucketIn(UrlBuckets)
    \/ rewrite.pc # "loop" /\ PutObjectIn(UrlBuckets, Payloads)
    \/ CopyObjectEnter
    \/ RewriteCall

\* The loop keeps running (the calling thread is scheduled), and the provider
\* eventually reports completion.
SpecRewrite ==
    Init /\ [][NextRewrite]_vars /\ WF_vars(RewriteCall) /\ WF_vars(RewriteCompletes)

\* A copy_object call inside its rewrite loop leaves it.
RewriteLoopLeaves == (rewrite.pc = "loop") ~> (rewrite.pc # "loop")

\* What one pass of the loop does, read off the call just made (the last
\* entry of the history) and the state before it.
C31_Step ==
    rewrite.pc = "loop" =>
        LET a == rewrite.args
            h == rewrite'.history
            whole == GCS_copy_object(client, store, a.bucket, a.name, a.dbucket, a.dname) IN
        IF rewrite'.pc = "raised"
        THEN last'.op = "copy_object" /\ last'.out = "RawError" /\ store' = store
        ELSE /\ h # <<>>
             /\ h[Len(h)].token = (IF rewrite.history = <<>> THEN "False"
                                                               ELSE Issued(rewrite))
             /\ (rewrite'.pc = "done") = (h[Len(h)].answer = "None")
             /\ (rewrite'.pc = "loop") = (h[Len(h)].answer \in RewriteTokens)
             /\ rewrite'.pc = "loop" => (store' = store /\ last' = last)
             /\ rewrite'.pc = "done" =>
                    /\ last'.op = "copy_object" /\ last'.args = a
                    /\ last'.out = "ok" /\ last'.val = NoVal
                    /\ store' = whole.store /\ last'.calls = whole.calls

\* C31: in the rewrite loop of GCS.copy_object every rewrite call after the
\* first passes the continuation token the previous call returned (the first
\* passes False, "no token"); the loop is left exactly when the provider
\* returns no token, and then copy_object returns None with the destination
\* written: the progress figures stay in the locals that are logged.  With a
\* provider that eventually reports completion the call terminates.
C31_RewriteLoop == [][C31_Step]_vars /\ RewriteLoopLeaves

\* A copy of a non-empty object that took three rewrite calls, the last two
\* each passing the token of the call before, has completed.
C31_Witness ==
    /\ rewrite.pc = "done"
    /\ Len(rewrite.history) = 2
    /\ rewrite.history[1].token \in RewriteTokens
    /\ rewrite.history[2].token = rewrite.history[1].answer
    /\ rewrite.history[2].token # rewrite.history[1].token
    /\ rewrite.history[2].answer = "None"
    /\ rewrite.bytes_rewritten = 1
    /\ last.op = "copy_object" /\ last.out = "ok" /\ last.val = NoVal
    /\ HasObject(store, last.args.dbucket, last.args.dname)
    /\ last.args.dname # last.args.name
    /\ store[last.args.dbucket][last.args.dname] = <<1>>

\* ------------------------------------------------ rename keeps the content

\* C32 (as claimed): a successful rename_object(B,O,O2) of an existing object
\* O with content P leaves P readable at O2 on both adapters, for every key
\* O2: one naming another existing object, and O itself.
C32_Step ==
    \A b \in UrlBuckets, o \in Keys, o2 \in Keys :
        (/\ Configured /\ Succeeded("rename_object")
         /\ last'.args = [bucket |-> b, name |-> o, new_name |-> o2]
         /\ HasObject(store, b, o))
            => /\ get_object(b, o2)'.out = "ok"
               /\ get_object(b, o2)'.val = store[b][o]

C32_RenameKeepsContent == [][C32_Step]_vars

\* ------------------------------------------------ shape of the public URL

\* scheme://host/bucket/key with one scheme prefix and a bare hostname.
WellFormedUrl(url, bucket_name, name) ==
    /\ Len(url) = 7
    /\ url[1] \in {"http", "https"}
    /\ url[2] = "://"
    /\ url[3] \notin {"http", "https", "://", "/"}
    /\ SubSeq(url, 4, 7) = <<"/", bucket_name, "/", name>>

\* C33 (as claimed): in Public-URL mode of the GCS adapter every URL returned
\* is one scheme prefix (http:// or https://), a bare hostname, then the
\* bucket and key path, whatever the configuration; in particular with an
\* emulator host that carries a scheme and neither use_hostname nor an
\* external hostname given.
C33_Step ==
    (PublicUrlMode /\ Succeeded("get_presigned_url"))
        => WellFormedUrl(last'.val.url, last'.args.bucket, last'.args.name)

C33_PublicUrlWellFormed == [][C33_Step]_vars

====
